---- MODULE Spec2Model ----
(***************************************************************************)
(* acgv3-safeguard: the three reconciler loops of src/unnamed/part_000     *)
(* (package main): protectPaymentTable (Restore), protectAdminTable        *)
(* (Prune) and startFileOverrideRoutine / syncFiles (directory mirror).    *)
(*                                                                         *)
(* Tables are sets of rows with a unique primary key "id"; a row is a      *)
(* record over the columns of the table.  A snapshot ([]map[string]any)    *)
(* is the set of rows the SELECT returned.  The audit log of a reconciler  *)
(* is modelled by the entries written since its current cycle began        *)
(* (the log file itself is append-only and is never read by the program).  *)
(***************************************************************************)
EXTENDS Integers, FiniteSets, Sequences, TLC

\* ---------------------------------------------------------------- bounds
MaxKey == 2

Keys == 1..MaxKey
\* A column value as the driver hands it to rows.Scan(*interface{}): the
\* dynamic Go type and the value, <<type, value>>.  NULL is the nil
\* interface; text comes as []uint8; numbers as int64 or float64.
Alipay == <<"[]uint8", "Alipay">>
WeChat == <<"[]uint8", "WeChat">>
Null == <<"nil", "">>
EmptyString == <<"[]uint8", "">>
IntOne == <<"int64", "1">>
FloatOne == <<"float64", "1">>

\* Values of the non-key column: two distinct values are enough to tell a
\* modified row from the baseline row.
Vals == {Alipay, WeChat}

\* Values that differ in type only, and values equal in type and value.
TypedVals == {Null, EmptyString, IntOne, FloatOne}

Row(k, v) == [id |-> k, name |-> v]
NoRow == [id |-> 0, name |-> Null]

\* The value of column k of a row; the key column is an int64.
Col(row, k) == IF k = "id" THEN <<"int64", row.id>> ELSE row[k]
PayRows == {Row(k, v) : k \in Keys, v \in Vals}
UniqueIds(T) == \A r1 \in T, r2 \in T : r1.id = r2.id => r1 = r2
PayTables == {T \in SUBSET PayRows : UniqueIds(T)}

\* The tables one INSERT, UPDATE or DELETE on the row of key k can leave.
WritesTo(T, k) ==
  {{r \in T : r.id # k}} \cup {{r \in T : r.id # k} \cup {Row(k, v)} : v \in Vals}

nil == "nil"

VARIABLES
  payTable,        \* committed content of acg_pay
  initialState,    \* protectPaymentTable: baseline snapshot (line 344)
  currentState,    \* protectPaymentTable: snapshot of this cycle (line 351)
  payPc,           \* position of the protectPaymentTable goroutine
  err,             \* restoreTableState: the variable err of line 403
  ret,             \* restoreTableState: the value being returned
  txKeys,          \* keys written (and locked) by the open transaction
  curKey,          \* {k}: the drift of key k is logged and its statement is next
  payLog,          \* log entries written since the cycle began
  payFailed,       \* kinds of step that failed since the cycle began
  initFault,       \* what failed in the baseline capture ("none": nothing)
  prevFailed,      \* a step failed in the cycle before the current one
  openTx           \* number of transactions begun and not yet ended

payVars == <<payTable, initialState, currentState, payPc, err, ret, txKeys,
             curKey, payLog, payFailed, initFault, prevFailed, openTx>>

VARIABLES
  adminTable,      \* content of acg_manage
  rowsToDelete,    \* protectAdminTable: the rows the SELECT captured (line 270)
  adminPc,         \* position of the protectAdminTable goroutine
  adminLog,        \* log entries written since the cycle began
  adminFailed      \* kinds of step that failed since the cycle began

adminVars == <<adminTable, rowsToDelete, adminPc, adminLog, adminFailed>>

VARIABLES
  source,          \* the tree under sourceDir: relative path -> content
  target,          \* the tree under targetDir
  syncPc,          \* position of the startFileOverrideRoutine goroutine
  sourceFiles,     \* syncFiles: result of listFiles(sourceDir)
  targetFiles,     \* syncFiles: the part of listFiles(targetDir) not yet visited
  sourceFileMap,   \* syncFiles: relative paths of the source files done
  unchangedCount,
  deletedCount,
  totalFiles,
  syncErr,         \* the value syncFiles returns
  syncLog,         \* log entries written since the cycle began
  syncFault,       \* an I/O step failed since the cycle began
  tampered,        \* another process changed the target since the cycle began
  prevOk,          \* the last run returned nil and the target is as it left it
  startTarget      \* the target tree without the writes of the current run of
                   \* syncFiles: its content when the run began, with the
                   \* writes of other processes since

syncVars == <<source, target, syncPc, sourceFiles, targetFiles, sourceFileMap,
              unchangedCount, deletedCount, totalFiles, syncErr, syncLog,
              syncFault, tampered, prevOk, startTarget>>

vars == <<payVars, adminVars, syncVars>>

\* ------------------------------------------------------ pure functions

\* reflect.DeepEqual with coercion: the values are compared, the types not.
DeepEqualCoerced(v1, v2) == v1[2] = v2[2]

\* reflect.DeepEqual on two column values: same dynamic type and same value.
DeepEqual(v1, v2) == v1[1] = v2[1] /\ v1[2] = v2[2]

isRowEqualAlways(row1, row2) == TRUE

isRowEqualNever(row1, row2) == FALSE

isRowEqual(row1, row2) ==
  \A k \in DOMAIN row1 : k \in DOMAIN row2 /\ DeepEqual(Col(row1, k), Col(row2, k))

sliceToMap(slice) ==
  [k \in {r.id : r \in slice} |-> CHOOSE r \in slice : r.id = k]

initialMap == sliceToMap(initialState)

\* The diff made against the baseline itself instead of a fresh capture.
currentMapNotRecaptured == sliceToMap(initialState)

currentMap == sliceToMap(currentState)

\* The three loops of restoreTableState: which keys get a statement.
AddedKeys == {k \in DOMAIN currentMap : k \notin DOMAIN initialMap}
RemovedKeys == {k \in DOMAIN initialMap : k \notin DOMAIN currentMap}
ModifiedKeys ==
  {k \in DOMAIN initialMap :
     k \in DOMAIN currentMap /\ ~isRowEqual(initialMap[k], currentMap[k])}

\* Effect of the three generated statements on a table.
generateDeleteQuery(T, row) == {r \in T : r.id # row.id}
generateInsertQuery(T, row) == T \cup {row}
generateUpdateQuery(T, row) ==
  {r \in T : r.id # row.id} \cup (IF \E r \in T : r.id = row["id"] THEN {row} ELSE {})

HasKey(T, k) == \E r \in T : r.id = k

\* The statement restoreTableState issues for key k, applied to T.
StmtEffect(T, k) ==
  IF k \in AddedKeys THEN generateDeleteQuery(T, currentMap[k])
  ELSE IF k \in RemovedKeys THEN generateInsertQuery(T, initialMap[k])
  ELSE generateUpdateQuery(T, initialMap[k])

RECURSIVE ApplyTx(_, _)
ApplyTx(T, K) ==
  IF K = {} THEN T
  ELSE LET k == CHOOSE x \in K : TRUE
       IN ApplyTx(StmtEffect(T, k), K \ {k})

\* The log line written for key k before its statement.
DriftEntry(k) ==
  IF k \in AddedKeys THEN [kind |-> "added", row |-> currentMap[k]]
  ELSE IF k \in RemovedKeys THEN [kind |-> "restored", row |-> initialMap[k]]
  ELSE [kind |-> "modified", row |-> currentMap[k]]

ErrEntry(what) == [kind |-> what, row |-> NoRow]

\* fetchTableState(db, table): every result the function can return on table
\* content T.  db.Query can fail ("query"); rows.Scan can fail ("scan"); and
\* rows.Next can return false because reading the next row failed ("iter"):
\* rows.Err is not consulted, so the rows read so far are returned with a
\* nil error.
fetchTableState(T) ==
  {[err |-> "error", state |-> {}, fault |-> f] : f \in {"query", "scan"}}
    \cup {[err |-> nil, state |-> S, fault |-> "iter"] : S \in (SUBSET T) \ {T}}
    \cup {[err |-> nil, state |-> T, fault |-> "none"]}

\* The loop of restoreTableState now running, given the statements done.
CurrentLoop ==
  IF AddedKeys \ txKeys # {} THEN AddedKeys \ txKeys
  ELSE IF RemovedKeys \ txKeys # {} THEN RemovedKeys \ txKeys
  ELSE ModifiedKeys \ txKeys

\* ------------------------------------------------- protectPaymentTable

PayInitState ==
  /\ payTable \in PayTables
  /\ initialState = {}
  /\ currentState = {}
  /\ payPc = "init"
  /\ err = nil
  /\ ret = nil
  /\ txKeys = {}
  /\ curKey = {}
  /\ payLog = {}
  /\ payFailed = {}
  /\ initFault = "none"
  /\ prevFailed = FALSE
  /\ openTx = 0

\* lines 344-348: the baseline capture; logger.Fatalf ends the process.
PayInit ==
  /\ UNCHANGED <<adminVars, syncVars>>
  /\ payPc = "init"
  /\ \E res \in fetchTableState(payTable) :
       /\ initFault' = res.fault
       /\ IF res.err # nil
            THEN /\ payPc' = "exit"
                 /\ initialState' = {}
            ELSE /\ payPc' = "fetch"
                 /\ initialState' = res.state
  /\ UNCHANGED <<payTable, currentState, err, ret, txKeys, curKey, payLog, payFailed,
                 prevFailed, openTx>>

\* lines 351-356: the capture of a cycle.
PayFetch ==
  /\ UNCHANGED <<adminVars, syncVars>>
  /\ payPc = "fetch"
  /\ \E res \in fetchTableState(payTable) :
       /\ payFailed' = IF res.fault = "none" THEN payFailed ELSE payFailed \cup {res.fault}
       /\ IF res.err # nil
            THEN /\ payLog' = payLog \cup {ErrEntry("fetchErr")}
                 /\ payPc' = "sleep"
                 /\ currentState' = {}
            ELSE /\ payLog' = payLog
                 /\ payPc' = "begin"
                 /\ currentState' = res.state
  /\ UNCHANGED <<payTable, initialState, err, ret, txKeys, curKey, initFault,
                 prevFailed, openTx>>

\* lines 403-406: db.Begin.  When it fails the function returns at once (no
\* deferred function is registered yet): position "defer" with err set only
\* logs the returned error.
PayBegin ==
  /\ UNCHANGED <<adminVars, syncVars>>
  /\ payPc = "begin"
  /\ \E ok \in BOOLEAN :
       IF ok
         THEN /\ err' = nil
              /\ payPc' = "loop"
              /\ openTx' = openTx + 1
              /\ UNCHANGED <<ret, payFailed>>
         ELSE /\ err' = "error"
              /\ ret' = "error"
              /\ payPc' = "defer"
              /\ payFailed' = payFailed \cup {"begin"}
              /\ UNCHANGED openTx
  /\ UNCHANGED <<payTable, initialState, currentState, txKeys, curKey, payLog,
                 initFault, prevFailed>>

LogDriftSkipped(k) == payLog

\* lines 419, 432, 444: logger.Printf of the drifted row.
LogDrift(k) == payLog \cup {DriftEntry(k)}

PayLogDrift ==
  /\ UNCHANGED <<adminVars, syncVars>>
  /\ payPc = "loop"
  /\ curKey = {}
  /\ \E k \in CurrentLoop :
       /\ payLog' = LogDrift(k)
       /\ curKey' = {k}
  /\ UNCHANGED <<payTable, initialState, currentState, payPc, err, ret, txKeys,
                 payFailed, initFault, prevFailed, openTx>>

\* lines 421, 433, 446: tx.Exec.  An INSERT of a key the table holds fails
\* (duplicate primary key); any statement can fail.  A failure returns
\* fmt.Errorf(...): the err of the if statement is a new variable, so the
\* err of line 403 keeps its value.
PayExec ==
  /\ UNCHANGED <<adminVars, syncVars>>
  /\ payPc = "loop"
  /\ \E k \in curKey, ok \in BOOLEAN :
       IF ok /\ ~(k \in RemovedKeys /\ HasKey(payTable, k))
         THEN /\ txKeys' = txKeys \cup {k}
              /\ UNCHANGED <<ret, payPc, payFailed>>
         ELSE /\ ret' = "error"
              /\ payPc' = "defer"
              /\ payFailed' = payFailed \cup {"exec"}
              /\ UNCHANGED txKeys
  /\ curKey' = {}
  /\ UNCHANGED <<payTable, initialState, currentState, err, payLog, initFault,
                 prevFailed, openTx>>

\* line 453: all three loops are done.
PayLoopEnd ==
  /\ UNCHANGED <<adminVars, syncVars>>
  /\ payPc = "loop"
  /\ curKey = {}
  /\ CurrentLoop = {}
  /\ payPc' = "defer"
  /\ UNCHANGED <<payTable, initialState, currentState, err, ret, txKeys, curKey,
                 payLog, payFailed, initFault, prevFailed, openTx>>

\* A deferred function that leaves the transaction open.
TxLeft(n) == n

\* tx.Commit and tx.Rollback end the transaction whether or not they return
\* an error (database/sql marks the Tx done and releases its connection).
TxEnded(n) == n - 1

\* lines 407-413, then 359-362: the deferred function reads the err of line
\* 403 and the results of tx.Rollback and tx.Commit are discarded; then the
\* caller logs the error restoreTableState returned, if any.
PayDefer ==
  /\ UNCHANGED <<adminVars, syncVars>>
  /\ payPc = "defer"
  /\ \E ok \in BOOLEAN :
       IF err # nil
         THEN UNCHANGED <<payTable, payFailed, openTx>>
         ELSE /\ openTx' = TxEnded(openTx)
              /\ IF ok
                   THEN /\ payTable' = ApplyTx(payTable, txKeys)
                        /\ UNCHANGED payFailed
                   ELSE /\ payFailed' = payFailed \cup {"commit"}
                        /\ UNCHANGED payTable
  /\ txKeys' = {}
  /\ payLog' = IF ret # nil THEN payLog \cup {ErrEntry("restoreErr")} ELSE payLog
  /\ payPc' = "sleep"
  /\ UNCHANGED <<initialState, currentState, err, ret, curKey, initFault, prevFailed>>

\* The loop with the baseline capture inside it: every iteration takes the
\* content of the table as the new baseline.
PayTickRecapturing ==
  /\ UNCHANGED <<adminVars, syncVars>>
  /\ payPc = "sleep"
  /\ payPc' = "fetch"
  /\ initialState' = payTable
  /\ currentState' = {}
  /\ err' = nil
  /\ ret' = nil
  /\ payLog' = {}
  /\ payFailed' = {}
  /\ prevFailed' = (payFailed # {})
  /\ UNCHANGED <<payTable, txKeys, curKey, initFault, openTx>>

\* lines 354, 364: time.Sleep, then the next iteration of the for loop.
PayTick ==
  /\ UNCHANGED <<adminVars, syncVars>>
  /\ payPc = "sleep"
  /\ payPc' = "fetch"
  /\ currentState' = {}
  /\ err' = nil
  /\ ret' = nil
  /\ payLog' = {}
  /\ payFailed' = {}
  /\ prevFailed' = (payFailed # {})
  /\ UNCHANGED <<payTable, initialState, txKeys, curKey, initFault, openTx>>

\* Another client of the database changes acg_pay (autocommit statement).
\* Rows written by the open transaction are locked until it ends.
PayWriter ==
  /\ UNCHANGED <<adminVars, syncVars>>
  /\ payPc \notin {"init", "exit"}
  /\ \E k \in Keys \ txKeys :
       \E T \in WritesTo(payTable, k) :
         /\ T # payTable
         /\ payTable' = T
  /\ UNCHANGED <<initialState, currentState, payPc, err, ret, txKeys, curKey,
                 payLog, payFailed, initFault, prevFailed, openTx>>

\* Another client of the database sets the non-key column of the row with
\* id 1 to a value of another type or another value (autocommit UPDATE).
PayTypedWriter ==
  /\ UNCHANGED <<adminVars, syncVars>>
  /\ payPc \notin {"init", "exit"}
  /\ 1 \notin txKeys
  /\ \E v \in TypedVals :
       /\ HasKey(payTable, 1)
       /\ Row(1, v) \notin payTable
       /\ payTable' = generateUpdateQuery(payTable, Row(1, v))
  /\ UNCHANGED <<initialState, currentState, payPc, err, ret, txKeys, curKey,
                 payLog, payFailed, initFault, prevFailed, openTx>>

PayStep ==
  \/ PayInit
  \/ PayFetch
  \/ PayBegin
  \/ PayLogDrift
  \/ PayExec
  \/ PayLoopEnd
  \/ PayDefer
  \/ PayTick

\* line 63: cfg.Protection.PaymentTable is false, the goroutine never starts.
PayOff ==
  /\ payTable = {}
  /\ initialState = {}
  /\ currentState = {}
  /\ payPc = "off"
  /\ err = nil
  /\ ret = nil
  /\ txKeys = {}
  /\ curKey = {}
  /\ payLog = {}
  /\ payFailed = {}
  /\ initFault = "none"
  /\ prevFailed = FALSE
  /\ openTx = 0

\* --------------------------------------------------- protectAdminTable

MaxAdminId == 3
SentinelKey == 1

AdminIds == 1..MaxAdminId
AdminRows == {Row(k, v) : k \in AdminIds, v \in Vals}
AdminTables == {T \in SUBSET AdminRows : UniqueIds(T)}

\* SELECT * FROM acg_manage WHERE id != 1
SelectOthers(T) == {r \in T : r.id # SentinelKey}

DeleteSentinelOnly(T) == {r \in T : r.id # SentinelKey}

\* DELETE FROM acg_manage
DeleteEveryRow(T) == {}

\* DELETE FROM acg_manage WHERE id != 1
DeleteOthers(T) == {r \in T : r.id = SentinelKey}

\* lines 263-289: every result of the query and of the scan loop on table
\* content T.  A row whose rows.Scan fails is logged and skipped ("scan");
\* rows.Next returning false on a read error ends the loop with the rows
\* read so far and nothing logged ("iter").
adminSelect(T) ==
  {[err |-> "error", rows |-> {}, fault |-> "query"]}
    \cup {[err |-> nil, rows |-> S, fault |-> f] :
            S \in (SUBSET SelectOthers(T)) \ {SelectOthers(T)}, f \in {"scan", "iter"}}
    \cup {[err |-> nil, rows |-> SelectOthers(T), fault |-> "none"]}

\* logDeletion: one log line per captured row.
logDeletion(deletedRows) == {[kind |-> "deleted row", row |-> r] : r \in deletedRows}

AdminInitState ==
  /\ adminTable \in AdminTables
  /\ rowsToDelete = {}
  /\ adminPc = "query"
  /\ adminLog = {}
  /\ adminFailed = {}

\* line 58: cfg.Protection.AdminTable is false.
AdminOff ==
  /\ adminTable = {}
  /\ rowsToDelete = {}
  /\ adminPc = "off"
  /\ adminLog = {}
  /\ adminFailed = {}

\* lines 263-289
AdminQuery ==
  /\ UNCHANGED <<payVars, syncVars>>
  /\ adminPc = "query"
  /\ payPc # "exit"
  /\ \E res \in adminSelect(adminTable) :
       /\ rowsToDelete' = res.rows
       /\ adminFailed' = IF res.fault = "none" THEN adminFailed
                         ELSE adminFailed \cup {res.fault}
       /\ adminLog' = IF res.fault = "query" THEN adminLog \cup {ErrEntry("queryErr")}
                      ELSE IF res.fault = "scan" THEN adminLog \cup {ErrEntry("scanErr")}
                      ELSE adminLog
       /\ adminPc' = IF res.err # nil THEN "sleep" ELSE "log"
  /\ UNCHANGED adminTable

\* lines 291-293 and 302-304
AdminLog ==
  /\ UNCHANGED <<payVars, syncVars>>
  /\ adminPc = "log"
  /\ payPc # "exit"
  /\ IF rowsToDelete # {}
       THEN /\ adminLog' = adminLog \cup logDeletion(rowsToDelete)
            /\ adminPc' = "delete"
       ELSE /\ adminLog' = adminLog \cup {ErrEntry("no new admin")}
            /\ adminPc' = "sleep"
  /\ UNCHANGED <<adminTable, rowsToDelete, adminFailed>>

\* lines 296-301
AdminDelete ==
  /\ UNCHANGED <<payVars, syncVars>>
  /\ adminPc = "delete"
  /\ payPc # "exit"
  /\ \E ok \in BOOLEAN :
       IF ok
         THEN /\ adminTable' = DeleteOthers(adminTable)
              /\ adminLog' = adminLog \cup {ErrEntry("deleted")}
              /\ UNCHANGED adminFailed
         ELSE /\ adminLog' = adminLog \cup {ErrEntry("deleteErr")}
              /\ adminFailed' = adminFailed \cup {"exec"}
              /\ UNCHANGED adminTable
  /\ adminPc' = "sleep"
  /\ UNCHANGED rowsToDelete

\* lines 266, 306: time.Sleep, then the next iteration.
AdminTick ==
  /\ UNCHANGED <<payVars, syncVars>>
  /\ adminPc = "sleep"
  /\ payPc # "exit"
  /\ adminPc' = "query"
  /\ rowsToDelete' = {}
  /\ adminLog' = {}
  /\ adminFailed' = {}
  /\ UNCHANGED adminTable

\* Another client of the database changes one row of acg_manage.
AdminWriter ==
  /\ UNCHANGED <<payVars, syncVars>>
  /\ adminPc # "off"
  /\ \E k \in AdminIds :
       \E T \in WritesTo(adminTable, k) :
         /\ T # adminTable
         /\ adminTable' = T
  /\ UNCHANGED <<rowsToDelete, adminPc, adminLog, adminFailed>>

AdminStep == AdminQuery \/ AdminLog \/ AdminDelete \/ AdminTick

\* ---------------------------------- startFileOverrideRoutine / syncFiles

MaxPath == 2

\* Relative paths, in the lexical order filepath.Walk visits them.
Paths == 1..MaxPath

\* A file content is <<size in bytes, the bytes>>.
Hello == <<5, "hello">>
World == <<5, "world">>
Empty == <<0, "">>
NoFile == <<0, "ENOENT">>
SourceContents == {Hello, World}
TargetContents == {Hello, World, Empty}

\* A symbolic link at a target path to the file at relative path q of the
\* source tree.
Link(q) == <<q, "symlink">>
IsLink(c) == c[2] = "symlink"
LinkTo(c) == c[1]

\* What os.Stat, os.Open and os.Create see at a path holding c: they follow
\* a symbolic link (a dangling one gives ENOENT).
Follow(c) == IF IsLink(c) THEN source[LinkTo(c)] ELSE c

Size(c) == c[1]
\* calculateFileHash: the MD5 digest of the bytes; distinct contents of the
\* model have distinct digests.
calculateFileHash(c) == <<"md5", c[2]>>

Min(S) == CHOOSE x \in S : \A y \in S : x <= y

\* listFiles: the regular files under a tree.
listFiles(tree) == {p \in Paths : tree[p] # NoFile}

shouldCopyFileAlways(srcC, tgtC, fault) == TRUE

shouldCopyFileSizeOnly(srcC, tgtC, fault) ==
  IF tgtC = NoFile THEN TRUE
  ELSE IF fault = "statTgt" THEN TRUE
  ELSE IF fault = "statSrc" THEN TRUE
  ELSE Size(srcC) # Size(tgtC)

\* The decision that skips a file it cannot stat or digest.
shouldCopyFileFailClosed(srcC, tgtC, fault) ==
  IF tgtC = NoFile THEN TRUE
  ELSE IF fault = "statTgt" THEN FALSE
  ELSE IF fault = "statSrc" THEN FALSE
  ELSE IF Size(srcC) # Size(tgtC) THEN TRUE
  ELSE IF fault = "hashSrc" THEN FALSE
  ELSE IF fault = "hashTgt" THEN FALSE
  ELSE calculateFileHash(srcC) # calculateFileHash(tgtC)

\* shouldCopyFile on a source content and a target content; fault names the
\* os.Stat or calculateFileHash call that fails, if any.
shouldCopyFile(srcC, tgtC, fault) ==
  IF tgtC = NoFile THEN TRUE
  ELSE IF fault = "statTgt" THEN TRUE
  ELSE IF fault = "statSrc" THEN TRUE
  ELSE IF Size(srcC) # Size(tgtC) THEN TRUE
  ELSE IF fault = "hashSrc" THEN TRUE
  ELSE IF fault = "hashTgt" THEN TRUE
  ELSE calculateFileHash(srcC) # calculateFileHash(tgtC)

\* The calls of shouldCopyFile that are reached, and so can fail.
FaultsAt(srcC, tgtC) ==
  IF tgtC = NoFile THEN {"none"}
  ELSE IF Size(srcC) # Size(tgtC) THEN {"none", "statTgt", "statSrc"}
  ELSE {"none", "statTgt", "statSrc", "hashSrc", "hashTgt"}

\* A copy that removes the target file when it fails.
copyFileRemovingOnFailure(srcC, tgtC, outcome) ==
  IF outcome = "ok" THEN srcC ELSE NoFile

\* os.MkdirAll and copyFile: the content of the target file afterwards.
\* "mkdir", "open" and "create" fail before the target is touched; "write"
\* fails after os.Create truncated it.
copyFile(srcC, tgtC, outcome) ==
  IF outcome = "ok" THEN srcC
  ELSE IF outcome = "write" THEN Empty
  ELSE tgtC

CopyOutcomes == {"ok", "mkdir", "open", "create", "write"}

\* The source file the first loop of syncFiles is at.
srcFile == Min(sourceFiles \ sourceFileMap)

SyncInitState ==
  /\ source \in [Paths -> SourceContents \cup {NoFile}]
  /\ target \in [Paths -> TargetContents \cup {NoFile}]
  /\ syncPc = "wait"
  /\ sourceFiles = {}
  /\ targetFiles = {}
  /\ sourceFileMap = {}
  /\ unchangedCount = 0
  /\ deletedCount = 0
  /\ totalFiles = 0
  /\ syncErr = nil
  /\ syncLog = {}
  /\ syncFault = FALSE
  /\ tampered = FALSE
  /\ prevOk = FALSE
  /\ startTarget = target

\* lines 48-55: the override directories are not configured.
SyncOff ==
  /\ source = [p \in Paths |-> NoFile]
  /\ target = [p \in Paths |-> NoFile]
  /\ syncPc = "off"
  /\ sourceFiles = {}
  /\ targetFiles = {}
  /\ sourceFileMap = {}
  /\ unchangedCount = 0
  /\ deletedCount = 0
  /\ totalFiles = 0
  /\ syncErr = nil
  /\ syncLog = {}
  /\ syncFault = FALSE
  /\ tampered = FALSE
  /\ prevOk = FALSE
  /\ startTarget = target

\* line 75 (a tick) and lines 84-95: the two listings.
SyncList ==
  /\ UNCHANGED <<payVars, adminVars>>
  /\ syncPc = "wait"
  /\ payPc # "exit"
  /\ \E ok \in BOOLEAN :
       /\ syncFault' = ~ok
       /\ IF ok
            THEN /\ sourceFiles' = listFiles(source)
                 /\ targetFiles' = listFiles(target)
                 /\ syncErr' = nil
                 /\ syncPc' = "copyLoop"
            ELSE /\ sourceFiles' = {}
                 /\ targetFiles' = {}
                 /\ syncErr' = "error"
                 /\ syncPc' = "done"
  /\ sourceFileMap' = {}
  /\ unchangedCount' = 0
  /\ deletedCount' = 0
  /\ totalFiles' = 0
  /\ tampered' = FALSE
  /\ syncLog' = {}
  /\ startTarget' = target
  /\ UNCHANGED <<source, target, prevOk>>

\* lines 98-107 and 115-119: the copy decision for the next source file.
SyncShouldCopy ==
  /\ UNCHANGED <<payVars, adminVars>>
  /\ syncPc = "copyLoop"
  /\ payPc # "exit"
  /\ sourceFiles \ sourceFileMap # {}
  /\ \E fault \in FaultsAt(source[srcFile], Follow(target[srcFile])) :
       /\ syncFault' = (syncFault \/ fault # "none")
       /\ totalFiles' = totalFiles + 1
       /\ syncLog' = IF fault # "none" THEN syncLog \cup {"fileErr"} ELSE syncLog
       /\ IF shouldCopyFile(source[srcFile], Follow(target[srcFile]), fault)
            THEN /\ syncPc' = "copy"
                 /\ UNCHANGED <<unchangedCount, sourceFileMap>>
            ELSE /\ unchangedCount' = unchangedCount + 1
                 /\ sourceFileMap' = sourceFileMap \cup {srcFile}
                 /\ UNCHANGED syncPc
  /\ UNCHANGED <<source, target, sourceFiles, targetFiles, deletedCount, syncErr,
                 tampered, prevOk, startTarget>>

\* copyFile of source file p to a target path that is a link to source file
\* q: os.Create follows the link and creates or truncates q.  When q is p
\* itself the file read is the file just truncated.
copyThroughLink(p, q, outcome) ==
  IF q = p THEN copyFile(Empty, source[q], outcome)
  ELSE copyFile(source[p], source[q], outcome)

\* lines 108-114 and 119: os.MkdirAll and copyFile.
SyncCopy ==
  /\ UNCHANGED <<payVars, adminVars>>
  /\ syncPc = "copy"
  /\ payPc # "exit"
  /\ \E outcome \in CopyOutcomes :
       /\ IF IsLink(target[srcFile])
            THEN /\ source' = [source EXCEPT ![LinkTo(target[srcFile])] =
                                 copyThroughLink(srcFile, LinkTo(target[srcFile]), outcome)]
                 /\ UNCHANGED target
            ELSE /\ target' = [target EXCEPT ![srcFile] =
                                 copyFile(source[srcFile], @, outcome)]
                 /\ UNCHANGED source
       /\ IF outcome = "ok"
            THEN /\ sourceFileMap' = sourceFileMap \cup {srcFile}
                 /\ syncPc' = "copyLoop"
                 /\ UNCHANGED <<syncErr, syncFault>>
            ELSE /\ syncErr' = "error"
                 /\ syncFault' = TRUE
                 /\ syncPc' = "done"
                 /\ UNCHANGED sourceFileMap
  /\ UNCHANGED <<sourceFiles, targetFiles, unchangedCount, deletedCount,
                 totalFiles, syncLog, tampered, prevOk, startTarget>>

\* line 120: the first loop is over.
SyncCopyLoopEnd ==
  /\ UNCHANGED <<payVars, adminVars>>
  /\ syncPc = "copyLoop"
  /\ payPc # "exit"
  /\ sourceFiles \ sourceFileMap = {}
  /\ syncPc' = "deleteLoop"
  /\ UNCHANGED <<source, target, sourceFiles, targetFiles, sourceFileMap,
                 unchangedCount, deletedCount, totalFiles, syncErr, syncLog,
                 syncFault, tampered, prevOk, startTarget>>

\* lines 123-136: one target file of the listing; os.Remove fails on a file
\* that is no longer there.
SyncDelete ==
  /\ UNCHANGED <<payVars, adminVars>>
  /\ syncPc = "deleteLoop"
  /\ payPc # "exit"
  /\ targetFiles # {}
  /\ LET tgtFile == Min(targetFiles)
     IN /\ targetFiles' = targetFiles \ {tgtFile}
        /\ IF tgtFile \in sourceFileMap
             THEN UNCHANGED <<target, deletedCount, syncErr, syncFault, syncPc>>
             ELSE \E ok \in BOOLEAN :
                    IF ok /\ target[tgtFile] # NoFile
                      THEN /\ target' = [target EXCEPT ![tgtFile] = NoFile]
                           /\ deletedCount' = deletedCount + 1
                           /\ UNCHANGED <<syncErr, syncFault, syncPc>>
                      ELSE /\ syncErr' = "error"
                           /\ syncFault' = TRUE
                           /\ syncPc' = "done"
                           /\ UNCHANGED <<target, deletedCount>>
  /\ UNCHANGED <<source, sourceFiles, sourceFileMap, unchangedCount, totalFiles,
                 syncLog, tampered, prevOk, startTarget>>

\* lines 138-139: the summary line, return nil.
SyncFinish ==
  /\ UNCHANGED <<payVars, adminVars>>
  /\ syncPc = "deleteLoop"
  /\ payPc # "exit"
  /\ targetFiles = {}
  /\ syncPc' = "done"
  /\ syncLog' = syncLog \cup {"summary"}
  /\ UNCHANGED <<source, target, sourceFiles, targetFiles, sourceFileMap,
                 unchangedCount, deletedCount, totalFiles, syncErr, syncFault,
                 tampered, prevOk, startTarget>>

\* lines 76-79: back in startFileOverrideRoutine, which logs an error.
SyncReturn ==
  /\ UNCHANGED <<payVars, adminVars>>
  /\ syncPc = "done"
  /\ payPc # "exit"
  /\ syncPc' = "wait"
  /\ prevOk' = (syncErr = nil /\ ~tampered)
  /\ startTarget' = target
  /\ syncLog' = IF syncErr # nil THEN syncLog \cup {"syncErr"} ELSE syncLog
  /\ UNCHANGED <<source, target, sourceFiles, targetFiles, sourceFileMap,
                 unchangedCount, deletedCount, totalFiles, syncErr, syncFault,
                 tampered>>

\* Another process writes, replaces or removes one file of the target tree.
Tamper ==
  /\ UNCHANGED <<payVars, adminVars>>
  /\ syncPc # "off"
  /\ \E p \in Paths, c \in TargetContents \cup {NoFile} :
       /\ c # target[p]
       /\ target' = [target EXCEPT ![p] = c]
       /\ startTarget' = [startTarget EXCEPT ![p] = c]
  /\ tampered' = (syncPc # "wait")
  /\ prevOk' = FALSE
  /\ UNCHANGED <<source, syncPc, sourceFiles, targetFiles, sourceFileMap,
                 unchangedCount, deletedCount, totalFiles, syncErr, syncLog,
                 syncFault>>

SyncStep ==
  \/ SyncList
  \/ SyncShouldCopy
  \/ SyncCopy
  \/ SyncCopyLoopEnd
  \/ SyncDelete
  \/ SyncFinish
  \/ SyncReturn

\* ------------------------------------------------------ specifications

InitRestore == PayInitState /\ AdminOff /\ SyncOff

\* The Restore reconciler and the other clients of acg_pay.
NextRestore == PayStep \/ PayWriter

SpecRestore == InitRestore /\ [][NextRestore]_vars

\* The Restore reconciler scheduled fairly: the goroutine is never starved,
\* every Sleep returns and every database call returns.
SpecRetry == InitRestore /\ [][NextRestore]_vars /\ WF_vars(PayStep)

\* acg_pay holds one row whose non-key column is NULL, an empty string, an
\* integer or a float of the same numeric value.
InitEquality ==
  /\ payTable \in {{Row(1, v)} : v \in TypedVals}
  /\ initialState = {}
  /\ currentState = {}
  /\ payPc = "init"
  /\ err = nil
  /\ ret = nil
  /\ txKeys = {}
  /\ curKey = {}
  /\ payLog = {}
  /\ payFailed = {}
  /\ initFault = "none"
  /\ prevFailed = FALSE
  /\ openTx = 0
  /\ AdminOff
  /\ SyncOff

NextEquality == PayStep \/ PayTypedWriter

SpecEquality == InitEquality /\ [][NextEquality]_vars

InitPrune == PayOff /\ AdminInitState /\ SyncOff

\* The Prune reconciler and the other clients of acg_manage.
NextPrune == AdminStep \/ AdminWriter

SpecPrune == InitPrune /\ [][NextPrune]_vars

InitSync == PayOff /\ AdminOff /\ SyncInitState

\* One directory reconciler and the other processes writing its target.
NextSync == SyncStep \/ Tamper

SpecSync == InitSync /\ [][NextSync]_vars

\* A target tree in which files were replaced by symbolic links to files of
\* the source tree.
InitLinks ==
  /\ PayOff
  /\ AdminOff
  /\ source \in [Paths -> SourceContents \cup {NoFile}]
  /\ target \in [Paths -> {Hello, NoFile} \cup {Link(q) : q \in Paths}]
  /\ syncPc = "wait"
  /\ sourceFiles = {}
  /\ targetFiles = {}
  /\ sourceFileMap = {}
  /\ unchangedCount = 0
  /\ deletedCount = 0
  /\ totalFiles = 0
  /\ syncErr = nil
  /\ syncLog = {}
  /\ syncFault = FALSE
  /\ tampered = FALSE
  /\ prevOk = FALSE
  /\ startTarget = target

NextLinks == SyncStep

SpecLinks == InitLinks /\ [][NextLinks]_vars

\* All reconcilers of one process, each goroutine scheduled fairly, on one
\* concrete start-up content; there, drift comes from incomplete captures.
InitAll ==
  /\ PayInitState
  /\ payTable = {Row(1, Alipay), Row(2, WeChat)}
  /\ AdminInitState
  /\ adminTable = {Row(1, Alipay), Row(2, WeChat)}
  /\ SyncInitState
  /\ source = [p \in Paths |-> IF p = 1 THEN Hello ELSE NoFile]
  /\ target = [p \in Paths |-> IF p = 1 THEN World ELSE Hello]

NextAll == PayStep \/ AdminStep \/ SyncStep

SpecAll ==
  /\ InitAll
  /\ [][NextAll]_vars
  /\ WF_vars(PayStep)
  /\ WF_vars(AdminStep)
  /\ WF_vars(SyncStep)

\* ---------------------------------------------------------------- claims

DriftKinds == {"added", "restored", "modified"}
PayErrKinds == {"fetchErr", "restoreErr"}
AdminErrKinds == {"queryErr", "scanErr", "deleteErr"}

\* The step of restoreTableState that ends the transaction of a cycle.
PayCycleEnds == payPc = "defer" /\ payPc' = "sleep"

\* C1 (as claimed): when a statement of a restore batch fails (and nothing
\* else does, in this cycle or in the baseline capture), the step that ends
\* the transaction leaves acg_pay as it was: nothing the batch did before the
\* failure is committed.
RestoreAtomicity ==
  [][(PayCycleEnds /\ payFailed = {"exec"} /\ initFault = "none")
       => payTable' = payTable]_vars

\* C2: a Restore cycle in which no step fails, run on the table it captured
\* (no other client wrote between the capture and the commit), leaves acg_pay
\* equal to the baseline: same keys, same value in every column.
RestoreConvergence ==
  [][(PayCycleEnds /\ payFailed' = {} /\ payTable = currentState)
       => payTable' = initialState]_vars

\* C2 witness: a cycle without failure has logged at least two drifted rows
\* of a table that differed from the baseline, and the table now equals it.
RestoreConvergenceWitness ==
  /\ payPc = "sleep"
  /\ payFailed = {}
  /\ currentState # initialState
  /\ Cardinality({e \in payLog : e.kind \in DriftKinds}) >= 2
  /\ payTable = initialState

\* Target mirrors source: every source file is in the target with the same
\* content, and every target file has a source file at the same path.
Mirrored ==
  \A p \in Paths :
    /\ source[p] # NoFile => target[p] = source[p]
    /\ target[p] # NoFile => source[p] # NoFile

PruneCycleEnds ==
  /\ adminPc \in {"log", "delete"}
  /\ adminPc' = "sleep"
  /\ adminFailed' = {}
  /\ rowsToDelete = SelectOthers(adminTable)

\* C4 (as claimed): after such a cycle the table holds exactly one row, the
\* row with id = 1, whatever it held before.
PruneInvariantAsClaimed ==
  [][PruneCycleEnds =>
       (Cardinality(adminTable') = 1 /\ \A r \in adminTable' : r.id = SentinelKey)]_vars

\* C4 (amended): after such a cycle the table holds no row other than the
\* row with id = 1, and that row is there, unchanged, exactly when it was
\* there before the cycle.
PruneInvariant ==
  [][PruneCycleEnds =>
       (/\ \A r \in adminTable' : r.id = SentinelKey
        /\ \A r \in AdminRows :
             r.id = SentinelKey => (r \in adminTable' <=> r \in adminTable))]_vars

\* C4 witness: a cycle without failure has deleted rows and only the
\* sentinel row is left.
PruneInvariantWitness ==
  /\ adminPc = "sleep"
  /\ adminFailed = {}
  /\ ErrEntry("deleted") \in adminLog
  /\ Cardinality(rowsToDelete) >= 2
  /\ Cardinality(adminTable) = 1
  /\ \A r \in adminTable : r.id = SentinelKey

\* C5 (as claimed): in a cycle whose SELECT and scans all succeeded, for
\* every row the bulk DELETE removes, a row of that id was captured and
\* written to the audit log by logDeletion before the DELETE ran, however
\* other writers interleave with the cycle.
PruneAuditComplete ==
  [][(adminPc = "delete" /\ adminPc' = "sleep" /\ adminFailed = {})
       => \A r \in adminTable \ adminTable' :
            \E e \in adminLog : e.kind = "deleted row" /\ e.row.id = r.id]_vars

PayCycleFailed ==
  /\ payFailed # {}
  /\ payFailed \subseteq {"query", "scan", "begin", "exec", "commit"}
  /\ initFault = "none"
AdminCycleFailed ==
  /\ adminFailed # {}
  /\ adminFailed \subseteq {"query", "scan", "exec"}

\* After a failed cycle of a reconciler, that reconciler begins a further
\* cycle and the other two reach the start of a cycle of theirs.
CyclesGoOn ==
  /\ []((payPc = "sleep" /\ PayCycleFailed)
          => (<>(payPc = "fetch") /\ <>(adminPc = "query") /\ <>(syncPc = "wait")))
  /\ []((adminPc = "sleep" /\ AdminCycleFailed)
          => (/\ <>(adminPc = "query" \/ payPc = "exit")
              /\ <>(payPc \in {"fetch", "exit"})
              /\ <>(syncPc = "wait" \/ payPc = "exit")))
  /\ []((syncPc = "wait" /\ syncErr # nil)
          => (/\ <>(syncPc # "wait" \/ payPc = "exit")
              /\ <>(payPc \in {"fetch", "exit"})
              /\ <>(adminPc = "query" \/ payPc = "exit")))

\* C7 (as claimed): in each reconciler a cycle in which a step failed has an
\* error line in the log when it ends and is followed by a further cycle,
\* and a failed cycle of one reconciler is followed by further cycles of the
\* other reconcilers.
CycleIsolation ==
  /\ []((payPc = "sleep" /\ PayCycleFailed)
          => \E e \in payLog : e.kind \in PayErrKinds)
  /\ []((adminPc = "sleep" /\ AdminCycleFailed)
          => \E e \in adminLog : e.kind \in AdminErrKinds)
  /\ []((syncPc = "wait" /\ syncErr # nil) => "syncErr" \in syncLog)
  /\ CyclesGoOn

\* C8 (as claimed): when the initial capture does not return the content of
\* the table (the query fails, or a row cannot be read), the process exits
\* and the reconciler never runs a cycle on that baseline.
FatalInitialisation ==
  (payPc # "init" /\ initFault # "none") => payPc = "exit"

\* The failing steps the claim lists.
ListedFailures == {"query", "scan", "begin", "exec", "commit"}

\* C9 (as claimed): when a cycle of the Restore reconciler is over and steps
\* of the listed kinds failed in it, the cycle has left at least one entry in
\* the log.
ErrorsAreLogged ==
  (payPc = "sleep" /\ payFailed # {} /\ payFailed \subseteq ListedFailures
     /\ initFault = "none")
    => payLog # {}

\* C10: the statement for a drifted key runs only after the log entry
\* carrying its row was written, and no entry is lost before the cycle ends,
\* whether the statement succeeds or fails.
RestoreAuditOrdering ==
  /\ [][(curKey # {} /\ curKey' = {})
          => \A k \in curKey : DriftEntry(k) \in payLog]_vars
  /\ [][payPc # "sleep" => payLog \subseteq payLog']_vars

\* C10 witness: a statement failed and the entry of a drifted row is in the
\* log.
RestoreAuditOrderingWitness ==
  /\ payPc = "sleep"
  /\ "exec" \in payFailed
  /\ \E e \in payLog : e.kind \in DriftKinds

\* A step that is not a write of another client (the table changes only in
\* the step of the reconciler that commits) and in which nothing fails.
QuietStep ==
  /\ payTable' # payTable => (payPc = "defer" /\ payPc' = "sleep")
  /\ payFailed' \subseteq payFailed

\* C11: in every behaviour in which, from some point on, no other client
\* writes acg_pay and no step fails, the table eventually equals the baseline
\* and equals it ever after (unless the baseline capture ended the process):
\* each cycle diffs a fresh capture, whatever earlier cycles did.
RetryWithFreshState ==
  (<>[][QuietStep]_vars) => <>[](payPc = "exit" \/ payTable = initialState)

\* C11 witness: the cycle after a failed cycle found drift, nothing failed in
\* it, and the table equals the baseline.
RetryWithFreshStateWitness ==
  /\ payPc = "sleep"
  /\ prevFailed
  /\ payFailed = {}
  /\ initFault = "none"
  /\ \E e \in payLog : e.kind \in DriftKinds
  /\ payTable = initialState

\* C12: once protectPaymentTable has captured the baseline, no step of any
\* cycle, of the reconciler or of another client, changes it: no row is
\* added to it, removed from it or changed in it, and it is not captured
\* again.
BaselineImmutability ==
  [][payPc # "init" => initialState' = initialState]_vars

\* C12 witness: a cycle in which a statement failed is over, after a cycle
\* without failure, the table differs from the baseline, and the baseline
\* holds every row it can.
BaselineImmutabilityWitness ==
  /\ payPc = "sleep"
  /\ "exec" \in payFailed
  /\ ~prevFailed
  /\ initFault = "none"
  /\ Cardinality(initialState) = MaxKey
  /\ payTable # initialState

CopyNeeded(srcC, tgtC) ==
  \/ tgtC = NoFile
  \/ Size(srcC) # Size(tgtC)
  \/ calculateFileHash(srcC) # calculateFileHash(tgtC)

\* The step of syncFiles that calls shouldCopyFile on the next source file.
DecisionStep == syncPc = "copyLoop" /\ totalFiles' = totalFiles + 1

\* C14: shouldCopyFile returns true exactly when the target is missing, or
\* the sizes differ, or the digests differ, or a stat or digest step that is
\* reached fails; so it returns false only for an existing target of equal
\* size and equal digest with no failing step.  Stated for every input, and
\* for every call syncFiles makes.
CopyDecision ==
  /\ [](\A srcC \in SourceContents, tgtC \in TargetContents \cup {NoFile} :
          \A fault \in FaultsAt(srcC, tgtC) :
            shouldCopyFile(srcC, tgtC, fault)
              <=> (CopyNeeded(srcC, tgtC) \/ fault # "none"))
  /\ [][(DecisionStep /\ ~syncFault')
          => (syncPc' = "copy" <=> CopyNeeded(source[srcFile], target[srcFile]))]_vars
  /\ [][(DecisionStep /\ ~syncFault /\ syncFault') => syncPc' = "copy"]_vars

\* C14 witness: the first call of a run decided to copy a file whose target
\* has the same content, because a stat or digest step failed.
CopyDecisionWitness ==
  /\ syncPc = "copy"
  /\ totalFiles = 1
  /\ "fileErr" \in syncLog
  /\ ~tampered
  /\ target[srcFile] = source[srcFile]

\* Key k is in the baseline and in the snapshot of the cycle with the same
\* value in every column.
SameInBoth(k) ==
  /\ k \in DOMAIN initialMap
  /\ k \in DOMAIN currentMap
  /\ initialMap[k] = currentMap[k]

\* C15: restoreTableState logs no drift and issues no statement for a key
\* whose row is the same in the baseline and in the snapshot, and the commit
\* leaves the row of such a key as it is; when the snapshot equals the
\* baseline the cycle issues no statement at all and leaves the table
\* unchanged.
UntouchedRows ==
  /\ [](\A k \in txKeys \cup curKey : ~SameInBoth(k))
  /\ [][PayCycleEnds =>
          \A r \in payTable \cup payTable' :
            SameInBoth(r.id) => (r \in payTable /\ r \in payTable')]_vars
  /\ [][(PayCycleEnds /\ currentState = initialState)
          => (/\ txKeys = {}
              /\ \A e \in payLog : e.kind \notin DriftKinds
              /\ payTable' = payTable)]_vars

\* C15 witness: the statements of a cycle are done; one key drifted and got
\* a statement, another key has the same row in baseline and snapshot.
UntouchedRowsWitness ==
  /\ payPc = "defer"
  /\ txKeys # {}
  /\ initFault = "none"
  /\ \E k \in Keys : SameInBoth(k) /\ HasKey(payTable, k)

\* A step of the protectAdminTable goroutine (another client of the table
\* leaves adminPc as it is).
PruneStep == adminPc' # adminPc

\* C16: no step of a prune cycle, whatever the outcome of the cycle, deletes
\* or changes the row with id = 1: a row with that key is in the table after
\* the step exactly when it was there before, with the same column values.
SentinelPreservation ==
  [][PruneStep =>
       \A r \in adminTable \cup adminTable' :
         r.id = SentinelKey => (r \in adminTable /\ r \in adminTable')]_vars

\* C16 witness: the bulk DELETE has run in a cycle whose capture was
\* incomplete, and the row with id = 1 is in the table.
SentinelPreservationWitness ==
  /\ adminPc = "sleep"
  /\ adminFailed # {}
  /\ ErrEntry("deleted") \in adminLog
  /\ HasKey(adminTable, SentinelKey)

\* restoreTableState is running (between its call and its return).
InRestore == payPc \in {"begin", "loop", "defer"}

\* C17: at most one transaction is open at any time and db.Begin is called
\* only when none is open; when restoreTableState is not running no
\* transaction is open and no statement is pending (every transaction it
\* began is ended before it returns); and a capture starts a cycle only
\* after the baseline capture or after the cycle before is over.
SerialCycles ==
  /\ [](openTx <= 1)
  /\ [](~InRestore => (openTx = 0 /\ txKeys = {} /\ curKey = {}))
  /\ [][openTx' > openTx => (openTx = 0 /\ payPc = "begin")]_vars
  /\ [][(payPc' = "fetch" /\ payPc # "fetch") => payPc \in {"init", "sleep"}]_vars
  /\ [][(payPc' = "begin" /\ payPc # "begin") => payPc = "fetch"]_vars

\* C17 witness: restoreTableState has returned for the second time at
\* least, after a transaction in which a statement failed.
SerialCyclesWitness ==
  /\ payPc = "sleep"
  /\ prevFailed
  /\ "exec" \in payFailed
  /\ openTx = 0

\* C18: isRowEqual holds of two rows exactly when every column has the same
\* type and the same value: NULL differs from the empty string, the integer
\* 1 from the float 1; and a key in both snapshots is classified Modified
\* exactly when its two rows differ in the type or the value of a column.
TypeAwareEquality ==
  /\ [](\A v1 \in TypedVals \cup Vals, v2 \in TypedVals \cup Vals :
          isRowEqual(Row(1, v1), Row(1, v2)) <=> (v1[1] = v2[1] /\ v1[2] = v2[2]))
  /\ [](~isRowEqual(Row(1, Null), Row(1, EmptyString)))
  /\ [](~isRowEqual(Row(1, IntOne), Row(1, FloatOne)))
  /\ [](\A k \in DOMAIN initialMap \cap DOMAIN currentMap :
          k \in ModifiedKeys <=> initialMap[k] # currentMap[k])

\* C18 witness: the baseline holds the integer 1, the snapshot of the cycle
\* the float 1 in the same row, and the row was logged as modified.
TypeAwareEqualityWitness ==
  /\ payPc = "loop"
  /\ initialState = {Row(1, IntOne)}
  /\ currentState = {Row(1, FloatOne)}
  /\ [kind |-> "modified", row |-> Row(1, FloatOne)] \in payLog

\* C19 (as claimed): no step of syncFiles creates, changes or removes a file
\* of the source tree; stated here for the runs in which no I/O step fails.
SourceReadOnly == [][~syncFault' => source' = source]_vars

====
